---- MODULE Spec2Model ----
(***************************************************************************)
(* Contact-constrained forward dynamics of RBDL (src/src/Contacts.cc):     *)
(* the ConstraintSet registry (AddConstraint, Bind, clear), the dense      *)
(* Lagrangian (KKT) solver and the compliance engine                       *)
(* (ForwardDynamicsContacts with ForwardDynamicsAccelerationDeltas and     *)
(* ForwardDynamicsApplyConstraintForces).                                  *)
(*                                                                         *)
(* Numbers.  The code computes in double precision.  The model computes in *)
(* exact rational arithmetic, a number being a pair <<n, d>> in lowest     *)
(* terms with d > 0, plus one non-finite value NaN == <<1, 0>> that every  *)
(* operation propagates (the result of x / 0, of a solve with a singular   *)
(* matrix).  "Equal within solver tolerance" is exact equality here.       *)
(*                                                                         *)
(* Kinematic trees.  Model.h, Dynamics.cc and Kinematics.cc are not part   *)
(* of the sources at hand; the collaborators they implement are modelled   *)
(* from the specification (sections 4.4 and 6) for the family of trees     *)
(* whose joints are prismatic along a world direction or fixed and whose   *)
(* frames are not rotated.  For that family every angular velocity is      *)
(* zero, the                                                               *)
(* velocity products c[i] and v x* I v vanish, and the linear part of      *)
(* every spatial vector evolves independently of its angular part (no      *)
(* S[i].dot(.) or U[i].dot(.) product reads an angular component), so a    *)
(* spatial vector is represented by its linear 3-vector and a spatial      *)
(* inertia by its linear 3x3 block.                                        *)
(*                                                                         *)
(* Assertions.  assert() is modelled as compiled in: a failed assertion    *)
(* aborts the process, which is the precondition violation of the          *)
(* specification; the state then records what had been written before.     *)
(***************************************************************************)
EXTENDS Integers, Sequences, FiniteSets, TLC

(***************************************************************************)
(* Exact rational arithmetic with a non-finite value.                      *)
(***************************************************************************)
Abs(n) == IF n < 0 THEN -n ELSE n

RECURSIVE Gcd(_, _)
Gcd(a, b) == IF b = 0 THEN a ELSE Gcd(b, a % b)

NaN == <<1, 0>>

IsNaN(x) == x[2] = 0

RNorm(n, d) ==
  IF d = 0 THEN NaN
  ELSE IF n = 0 THEN <<0, 1>>
  ELSE LET g == Gcd(Abs(n), Abs(d))
           s == IF d < 0 THEN -1 ELSE 1
       IN  <<(s * n) \div g, (s * d) \div g>>

R(n) == <<n, 1>>

RAdd(x, y) ==
  IF IsNaN(x) \/ IsNaN(y) THEN NaN
  ELSE IF x[2] = 1 /\ y[2] = 1 THEN <<x[1] + y[1], 1>>
  ELSE RNorm(x[1] * y[2] + y[1] * x[2], x[2] * y[2])

RNeg(x) == IF IsNaN(x) THEN NaN ELSE <<-x[1], x[2]>>

RSub(x, y) == RAdd(x, RNeg(y))

RMul(x, y) ==
  IF IsNaN(x) \/ IsNaN(y) THEN NaN
  ELSE IF x[2] = 1 /\ y[2] = 1 THEN <<x[1] * y[1], 1>>
  ELSE RNorm(x[1] * y[1], x[2] * y[2])

\* x / y; a division by zero is non-finite
RDiv(x, y) ==
  IF IsNaN(x) \/ IsNaN(y) \/ y[1] = 0 THEN NaN
  ELSE RNorm(x[1] * y[2], x[2] * y[1])

(***************************************************************************)
(* Vectors and matrices.  A VectorNd or std::vector of size n is a         *)
(* function on 0..n-1 (the source's indices); a MatrixNd is a record of    *)
(* its dimensions and its entries; a Vector3d is a function on 0..2.       *)
(***************************************************************************)
VecSize(v) == Cardinality(DOMAIN v)

VecConst(n, val) == [i \in 0 .. n - 1 |-> val]

MatConst(r, c, val) ==
  [rows |-> r, cols |-> c, at |-> [p \in (0 .. r - 1) \X (0 .. c - 1) |-> val]]

\* Eigen's conservativeResize: kept entries keep their values, new entries
\* are uninitialized memory (here: the value fresh)
VecConservativeResize(v, n, fresh) ==
  [i \in 0 .. n - 1 |-> IF i \in DOMAIN v THEN v[i] ELSE fresh]

MatConservativeResize(M, r, c, fresh) ==
  [rows |-> r, cols |-> c,
   at |-> [p \in (0 .. r - 1) \X (0 .. c - 1) |->
             IF p \in DOMAIN M.at THEN M.at[p] ELSE fresh]]

\* std::vector::resize (n, val): new elements are copies of val
StdResize(v, n, val) ==
  [i \in 0 .. n - 1 |-> IF i \in DOMAIN v THEN v[i] ELSE val]

V3(x, y, z) == [k \in 0 .. 2 |-> IF k = 0 THEN R(x) ELSE IF k = 1 THEN R(y) ELSE R(z)]

Zero3 == V3(0, 0, 0)

V3Add(u, v) == [k \in 0 .. 2 |-> RAdd(u[k], v[k])]

V3Sub(u, v) == [k \in 0 .. 2 |-> RSub(u[k], v[k])]

V3Scale(u, s) == [k \in 0 .. 2 |-> RMul(u[k], s)]

V3DivS(u, s) == [k \in 0 .. 2 |-> RDiv(u[k], s)]

V3Dot(u, v) == RAdd(RAdd(RMul(u[0], v[0]), RMul(u[1], v[1])), RMul(u[2], v[2]))

\* linear 3x3 block of a spatial inertia: a function on (0..2) x (0..2)
M3Scalar(m) == [p \in (0 .. 2) \X (0 .. 2) |-> IF p[1] = p[2] THEN m ELSE R(0)]

M3Add(A, B) == [p \in (0 .. 2) \X (0 .. 2) |-> RAdd(A[p], B[p])]

M3Sub(A, B) == [p \in (0 .. 2) \X (0 .. 2) |-> RSub(A[p], B[p])]

M3MulV(A, v) ==
  [k \in 0 .. 2 |->
     RAdd(RAdd(RMul(A[<<k, 0>>], v[0]), RMul(A[<<k, 1>>], v[1])), RMul(A[<<k, 2>>], v[2]))]

\* u * v^T
M3Outer(u, v) == [p \in (0 .. 2) \X (0 .. 2) |-> RMul(u[p[1]], v[p[2]])]

(***************************************************************************)
(* The linear solver (Eigen's partialPivLu / colPivHouseholderQr,          *)
(* LinSolveGaussElimPivot): the exact solution of M x = rhs for a          *)
(* nonsingular n x n matrix; for a singular matrix, or one holding a       *)
(* non-finite entry, the result is not specified and every entry of x is   *)
(* the non-finite value.                                                   *)
(***************************************************************************)
\* the augmented system [M | rhs] as a function on (0..n-1) x (0..n)
Augment(M, rhs, n) ==
  [p \in (0 .. n - 1) \X (0 .. n) |-> IF p[2] = n THEN rhs[p[1]] ELSE M.at[p]]

PivotRows(W, n, k) == {r \in k .. n - 1 : W[<<r, k>>] # R(0)}

SwapRows(W, n, r1, r2) ==
  [p \in (0 .. n - 1) \X (0 .. n) |->
     IF p[1] = r1 THEN W[<<r2, p[2]>>]
     ELSE IF p[1] = r2 THEN W[<<r1, p[2]>>]
     ELSE W[p]]

\* Gauss-Jordan step on column k with the pivot in row k
Eliminate(W, n, k) ==
  [p \in (0 .. n - 1) \X (0 .. n) |->
     IF p[1] = k THEN RDiv(W[p], W[<<k, k>>])
     ELSE RSub(W[p], RMul(W[<<p[1], k>>], RDiv(W[<<k, p[2]>>], W[<<k, k>>]))) ]

RECURSIVE GaussJordan(_, _, _)
GaussJordan(W, n, k) ==
  IF k = n THEN [i \in 0 .. n - 1 |-> W[<<i, n>>]]
  ELSE IF PivotRows(W, n, k) = {} THEN VecConst(n, NaN)
  ELSE LET r == CHOOSE r \in PivotRows(W, n, k) : \A q \in PivotRows(W, n, k) : r <= q
       IN  GaussJordan(Eliminate(SwapRows(W, n, k, r), n, k), n, k + 1)

LinSolve(M, rhs) ==
  LET n == M.rows
  IN  IF (\E p \in DOMAIN M.at : IsNaN(M.at[p])) \/ (\E i \in DOMAIN rhs : IsNaN(rhs[i]))
      THEN VecConst(n, NaN)
      ELSE GaussJordan(Augment(M, rhs, n), n, 0)

\* a matrix the solver can invert: finite entries and full rank
RECURSIVE FullRank(_, _, _)
FullRank(W, n, k) ==
  IF k = n THEN TRUE
  ELSE IF PivotRows(W, n, k) = {} THEN FALSE
  ELSE LET r == CHOOSE r \in PivotRows(W, n, k) : \A q \in PivotRows(W, n, k) : r <= q
       IN  FullRank(Eliminate(SwapRows(W, n, k, r), n, k), n, k + 1)

NonSingular(M) ==
  /\ \A p \in DOMAIN M.at : ~IsNaN(M.at[p])
  /\ FullRank(Augment(M, VecConst(M.rows, R(0)), M.rows), M.rows, 0)

(***************************************************************************)
(* Kinematic trees (Model.h).  Body 0 is the fixed base; body i > 0 hangs  *)
(* on body lambda[i] < i by joint i, which is fixed (i \in fixed) or       *)
(* prismatic along the world direction axis[i]: 0, 1, 2 for x, y, z, or    *)
(* Diagonal.  dof_count counts every joint, fixed ones included            *)
(* (QDDot[i - 1] belongs to joint i).                                      *)
(***************************************************************************)
\* the joint axis (1, 0, 1) in the x-z plane (the axes 0, 1, 2 are x, y, z)
Diagonal == 3

Tree(par, ax, fx, m, g) ==
  [nb |-> Len(par) + 1,
   lambda |-> [i \in 0 .. Len(par) |-> IF i = 0 THEN 0 ELSE par[i]],
   axis |-> [i \in 0 .. Len(par) |-> IF i = 0 THEN 0 ELSE ax[i]],
   fixed |-> fx \cup {0},
   mass |-> [i \in 0 .. Len(par) |-> IF i = 0 THEN R(0) ELSE R(m[i])],
   gravity |-> g]

\* a slider along the diagonal of the x-z plane on a z-slider, two
\* independent sliders (z and x) on the base, and a z-slider carrying a body
\* on a fixed joint
ChainModel == Tree(<<0, 1>>, <<2, Diagonal>>, {}, <<1, 2>>, V3(0, 0, -1))

IndependentModel == Tree(<<0, 0>>, <<2, 0>>, {}, <<2, 1>>, V3(0, 0, -1))

FixedJointModel == Tree(<<0, 1>>, <<2, 2>>, {2}, <<1, 1>>, V3(0, 0, -1))

Models == {ChainModel, IndependentModel, FixedJointModel}

\* trees with a branch beside the path of the last body: a z-slider carrying
\* a diagonal slider next to an x-slider on the base, and a z-slider
\* carrying a body on a fixed joint next to an x-slider on the base
BranchModel == Tree(<<0, 0, 1>>, <<2, 0, Diagonal>>, {}, <<1, 1, 1>>, V3(0, 0, -1))

FixedBranchModel == Tree(<<0, 1, 0>>, <<2, 2, 0>>, {2}, <<1, 1, 1>>, V3(0, 0, -1))

BranchModels == {BranchModel, FixedBranchModel}

mBodiesSize(M) == M.nb

dof_count(M) == M.nb - 1

\* model.mJoints[i].mJointType == JointTypeFixed
JointTypeFixed(M, i) == i \in M.fixed

\* the motion subspace S[i] of joint i (linear part); zero for a fixed joint
S(M, i) ==
  [k \in 0 .. 2 |->
     IF i \notin M.fixed /\ (M.axis[i] = k \/ (M.axis[i] = Diagonal /\ k # 1))
     THEN R(1) ELSE R(0)]

mSpatialInertia(M, i) == M3Scalar(M.mass[i])

\* j is body b or one of its ancestors
RECURSIVE OnPath(_, _, _)
OnPath(M, j, b) ==
  IF b = 0 THEN j = 0
  ELSE j = b \/ OnPath(M, j, M.lambda[b])

(***************************************************************************)
(* The collaborators of section 6 (Dynamics.cc, Kinematics.cc), modelled   *)
(* from the specification for the trees above.  mdl is the model's mutable *)
(* per-body scratch: U, d, u, tau, the spatial accelerations a and qddot.  *)
(***************************************************************************)
ModelScratch(M) ==
  [U |-> VecConst(M.nb, Zero3), d |-> VecConst(M.nb, R(0)), u |-> VecConst(M.nb, R(0)),
   tau |-> VecConst(M.nb, R(0)), a |-> VecConst(M.nb, Zero3), qddot |-> VecConst(M.nb, R(0))]

RECURSIVE SumOver(_, _)
SumOver(f, D) ==
  IF D = {} THEN R(0)
  ELSE LET j == CHOOSE j \in D : TRUE IN RAdd(f[j], SumOver(f, D \ {j}))

\* the bodies of the subtree rooted at body i
Subtree(M, i) == {j \in 1 .. M.nb - 1 : OnPath(M, i, j)}

\* leaf-to-root pass of the articulated-body algorithm, bodies i, i-1, .., 1
RECURSIVE ABAUp(_, _, _)
ABAUp(M, i, st) ==
  IF i = 0 THEN st
  ELSE IF JointTypeFixed(M, i) THEN ABAUp(M, i - 1, st)
  ELSE LET Si == S(M, i)
           Ui == M3MulV(st.IA[i], Si)
           di == V3Dot(Si, Ui)
           ui == RSub(st.tau[i], V3Dot(Si, st.pA[i]))
           lam == M.lambda[i]
           Ia == M3Sub(st.IA[i], M3Outer(Ui, V3DivS(Ui, di)))
           pa == V3Add(st.pA[i], V3DivS(V3Scale(Ui, ui), di))
           s1 == [st EXCEPT !.U[i] = Ui, !.d[i] = di, !.u[i] = ui]
       IN  ABAUp(M, i - 1,
                 IF lam # 0
                 THEN [s1 EXCEPT !.IA[lam] = M3Add(@, Ia), !.pA[lam] = V3Add(@, pa)]
                 ELSE s1)

\* root-to-leaf pass, bodies i, i+1, .., nb-1
RECURSIVE ABADown(_, _, _)
ABADown(M, i, st) ==
  IF i >= M.nb THEN st
  ELSE LET lam == M.lambda[i]
           a0 == IF lam = 0 THEN V3Scale(M.gravity, R(-1)) ELSE st.a[lam]
       IN  IF JointTypeFixed(M, i)
           THEN ABADown(M, i + 1, [st EXCEPT !.a[i] = a0, !.qddot[i] = R(0)])
           ELSE LET qdd == RDiv(RSub(st.u[i], V3Dot(st.U[i], a0)), st.d[i])
                IN  ABADown(M, i + 1,
                            [st EXCEPT !.a[i] = V3Add(a0, V3Scale(S(M, i), qdd)),
                                       !.qddot[i] = qdd])

\* ForwardDynamics (model, Q, QDot, Tau, QDDot, f_ext): unconstrained
\* recursive forward dynamics under the per-body external forces fext (base
\* coordinates).  Yields the accelerations and the scratch it leaves behind.
ForwardDynamics(M, mdl, Tau, fext) ==
  LET st0 == [U |-> mdl.U, d |-> mdl.d, u |-> mdl.u,
              tau |-> [i \in 0 .. M.nb - 1 |-> IF i = 0 THEN mdl.tau[0] ELSE Tau[i - 1]],
              a |-> mdl.a, qddot |-> mdl.qddot,
              IA |-> [i \in 0 .. M.nb - 1 |-> mSpatialInertia(M, i)],
              pA |-> [i \in 0 .. M.nb - 1 |->
                        IF i = 0 THEN Zero3 ELSE V3Sub(Zero3, fext[i])]]
      st == ABADown(M, 1, ABAUp(M, M.nb - 1, st0))
  IN  [QDDot |-> [i \in 0 .. dof_count(M) - 1 |-> st.qddot[i + 1]],
       mdl |-> [U |-> st.U, d |-> st.d, u |-> st.u, tau |-> st.tau,
                a |-> st.a, qddot |-> st.qddot]]

\* UpdateKinematics / UpdateKinematicsCustom with a QDDot: the spatial
\* accelerations of all bodies (no gravity), bodies i, i+1, .., nb-1
RECURSIVE KinAccel(_, _, _, _)
KinAccel(M, QDDot, i, a) ==
  IF i >= M.nb THEN a
  ELSE KinAccel(M, QDDot, i + 1,
                [a EXCEPT ![i] = V3Add(a[M.lambda[i]], V3Scale(S(M, i), QDDot[i - 1]))])

UpdateKinematicsCustom(M, mdl, QDDot) ==
  [mdl EXCEPT !.a = KinAccel(M, QDDot, 1, [mdl.a EXCEPT ![0] = Zero3]),
              !.qddot = [i \in 0 .. M.nb - 1 |-> IF i = 0 THEN mdl.qddot[0] ELSE QDDot[i - 1]]]

\* CalcPointAcceleration (.., body_id, point, false): read from the
\* accelerations of the last kinematics update
CalcPointAcceleration(M, mdl, body_id, point) == mdl.a[body_id]

\* CalcPointJacobian (model, Q, body_id, point, G, false): the 3 x dof matrix
CalcPointJacobian(M, body_id, point) ==
  [rows |-> 3, cols |-> dof_count(M),
   at |-> [p \in (0 .. 2) \X (0 .. dof_count(M) - 1) |->
             IF OnPath(M, p[2] + 1, body_id) THEN S(M, p[2] + 1)[p[1]] ELSE R(0)]]

\* InverseDynamics (model, Q, QDot, QDDot, C): the generalized forces that
\* produce QDDot (the bias forces when QDDot = 0)
RECURSIVE IDAccel(_, _, _)
IDAccel(M, QDDot, i) ==
  IF i = 0 THEN V3Scale(M.gravity, R(-1))
  ELSE V3Add(IDAccel(M, QDDot, M.lambda[i]), V3Scale(S(M, i), QDDot[i - 1]))

InverseDynamics(M, QDDot) ==
  [i \in 0 .. dof_count(M) - 1 |->
     SumOver([j \in 1 .. M.nb - 1 |->
                RMul(M.mass[j], V3Dot(S(M, i + 1), IDAccel(M, QDDot, j)))],
             Subtree(M, i + 1))]

\* CompositeRigidBodyAlgorithm (model, Q, H, false): the joint-space mass matrix
CompositeRigidBodyAlgorithm(M) ==
  [rows |-> dof_count(M), cols |-> dof_count(M),
   at |-> [p \in (0 .. dof_count(M) - 1) \X (0 .. dof_count(M) - 1) |->
             LET i == p[1] + 1
                 j == p[2] + 1
                 k == IF i > j THEN i ELSE j
             IN  IF OnPath(M, i, j) \/ OnPath(M, j, i)
                 THEN RMul(SumOver(M.mass, Subtree(M, k)), V3Dot(S(M, i), S(M, j)))
                 ELSE R(0)]]

(***************************************************************************)
(* State.                                                                  *)
(*   model  the kinematic tree the caller works with                       *)
(*   mdl    the model's mutable per-body scratch                           *)
(*   CS     the ConstraintSet: definitions, bound flag and workspace       *)
(*   QDDot  the caller's output vector of joint accelerations              *)
(*   uninit the value uninitialized doubles hold in this run               *)
(*   call   the last entry point called: its name, its Tau, whether it     *)
(*          returned ("ok") or aborted on a failed assertion               *)
(*          ("violation"), and the collaborators it called, in order       *)
(***************************************************************************)
VARIABLES model, mdl, CS, QDDot, uninit, call

vars == <<model, mdl, CS, QDDot, uninit, call>>

\* most constraints registered in one ConstraintSet
MaxConstraints == 2

\* values an uninitialized double (Eigen's resize without initialization, the
\* local MatrixNd Gi, a caller's fresh output vector) may hold
UninitializedValues == {R(0), R(5)}

\* linear_solver values of ConstraintSet
LinearSolvers == {"LinearSolverPartialPivLU", "LinearSolverColPivHouseholderQR"}

\* the solver a ConstraintSet is constructed with
DefaultSolver == "LinearSolverColPivHouseholderQR"

\* body points and world normals used by the callers
AxisX == V3(1, 0, 0)

AxisY == V3(0, 1, 0)

AxisZ == V3(0, 0, 1)

PointA == V3(0, 0, 0)

PointB == V3(1, 0, 0)

Constraint(b, p, n, nm, acc) ==
  [body_id |-> b, body_point |-> p, world_normal |-> n, constraint_name |-> nm,
   acceleration |-> R(acc)]

\* the inputs of AddConstraint: an axis constraint on body 1, two on one
\* point of body 2 (one with a desired acceleration), and one with a negated
\* axis as its normal
ConstraintInputs ==
  { Constraint(1, PointA, AxisZ, "", 0),
    Constraint(2, PointB, AxisX, "c", 1),
    Constraint(2, PointB, AxisZ, "", 0),
    Constraint(2, PointB, V3(0, 0, -1), "", 0) }

\* normals the solvers accept or refuse: an axis, a negated axis and a
\* vector that is no unit vector
AxisInputs ==
  { Constraint(1, PointA, AxisZ, "", 0),
    Constraint(1, PointA, V3(0, 0, -1), "", 0),
    Constraint(2, PointB, V3(1, 1, 0), "", 0) }

\* most constraints registered when the normals are checked
MaxAxisConstraints == 3

\* constraints that meet the last-(body,point) cache of the Lagrangian
\* solver: one on body 0 at the origin, two on one point of body 1 and one on
\* body 2
CacheInputs ==
  { Constraint(0, PointA, AxisZ, "", 0),
    Constraint(1, PointA, AxisZ, "", 0),
    Constraint(1, PointA, AxisX, "", 1),
    Constraint(2, PointB, AxisZ, "", 0) }

\* most constraints registered when the cache is exercised
MaxCacheConstraints == 2

\* constraints on the trees with a branch
BranchInputs ==
  { Constraint(1, PointA, AxisZ, "", 0),
    Constraint(3, PointB, AxisX, "", 0) }

\* most constraints registered on the trees with a branch
MaxBranchConstraints == 1

\* test forces handed to ForwardDynamicsAccelerationDeltas
TestForces == {V3(0, 0, -1), V3(1, 0, 1)}

\* a ContactInfo of the legacy path
ContactInfo(b, p, n, acc) ==
  [body_id |-> b, point |-> p, normal |-> n, acceleration |-> R(acc), force |-> R(0)]

\* the contacts handed to the legacy path: one on body 1, two on one point
\* of body 2
ContactInputs ==
  { ContactInfo(1, PointA, AxisZ, 0),
    ContactInfo(2, PointB, AxisX, 1),
    ContactInfo(2, PointB, AxisZ, 0) }

\* longest contact list handed to the legacy path
MaxContacts == 2

\* the contact lists ContactData[0 .. m-1]
ContactLists == UNION {[0 .. m - 1 -> ContactInputs] : m \in 0 .. MaxContacts}

\* joint torques handed to the solvers
Taus(M) == {VecConst(dof_count(M), R(0)), [i \in 0 .. dof_count(M) - 1 |-> R(i + 1)]}

\* ConstraintSet::size()
size(cs) == VecSize(cs.constraint_acceleration)

\* std::vector::push_back
push_back(v, x) == [i \in 0 .. VecSize(v) |-> IF i < VecSize(v) THEN v[i] ELSE x]

\* Eigen's setZero: every entry zero, dimensions kept
VecSetZero(v) == [i \in DOMAIN v |-> R(0)]

MatSetZero(M) == [M EXCEPT !.at = [p \in DOMAIN M.at |-> R(0)]]

\* the loops "for (i = 0; i < v.size(); i++) v[i].setZero()"
set_zero(v) == [i \in DOMAIN v |-> Zero3]

Alive == call.result # "violation"

NoLog == <<>>

\* a ConstraintSet as constructed: no constraints, empty workspace, not bound
NewConstraintSet(solver) ==
  [bound |-> FALSE, linear_solver |-> solver,
   name |-> <<>>, body |-> <<>>, point |-> <<>>, normal |-> <<>>,
   constraint_acceleration |-> <<>>, constraint_force |-> <<>>,
   H |-> MatConst(0, 0, R(0)), C |-> <<>>, gamma |-> <<>>, G |-> MatConst(0, 0, R(0)),
   A |-> MatConst(0, 0, R(0)), b |-> <<>>, x |-> <<>>,
   K |-> MatConst(0, 0, R(0)), a |-> <<>>, QDDot_t |-> <<>>, QDDot_0 |-> <<>>,
   f_t |-> <<>>, f_ext_constraints |-> <<>>, point_accel_0 |-> <<>>,
   d_pA |-> <<>>, d_a |-> <<>>, d_u |-> <<>>,
   d_IA |-> <<>>, d_U |-> <<>>, d_d |-> <<>>]

Init ==
  /\ model \in Models
  /\ mdl = ModelScratch(model)
  /\ CS = NewConstraintSet(DefaultSolver)
  /\ uninit \in UninitializedValues
  /\ QDDot = VecConst(dof_count(model), uninit)
  /\ call = [fn |-> "none", Tau |-> <<>>, result |-> "ok", log |-> NoLog]

(***************************************************************************)
(* ConstraintSet::AddConstraint, Bind, clear.                              *)
(***************************************************************************)
AddConstraintCS(cs, body_id, body_point, world_normal, constraint_name, acceleration) ==
  [cs EXCEPT !.name = push_back(@, constraint_name),
             !.body = push_back(@, body_id),
             !.point = push_back(@, body_point),
             !.normal = push_back(@, world_normal),
             !.constraint_acceleration = push_back(@, acceleration),
             !.constraint_force = push_back(@, R(0))]

\* AddConstraint without the assertion of line 34
AddConstraintUnchecked(body_id, body_point, world_normal, constraint_name, acceleration) ==
  /\ Alive
  /\ CS' = AddConstraintCS(CS, body_id, body_point, world_normal,
                           constraint_name, acceleration)
  /\ call' = [fn |-> "AddConstraint", Tau |-> <<>>, result |-> "ok", log |-> NoLog]
  /\ UNCHANGED <<model, mdl, QDDot, uninit>>

AddConstraint(body_id, body_point, world_normal, constraint_name, acceleration) ==
  /\ Alive
  /\ IF CS.bound = FALSE
     THEN /\ CS' = AddConstraintCS(CS, body_id, body_point, world_normal,
                                   constraint_name, acceleration)
          /\ call' = [fn |-> "AddConstraint", Tau |-> <<>>, result |-> "ok", log |-> NoLog]
     ELSE /\ CS' = CS
          /\ call' = [fn |-> "AddConstraint", Tau |-> <<>>, result |-> "violation",
                      log |-> NoLog]
  /\ UNCHANGED <<model, mdl, QDDot, uninit>>

BindCS(cs, M, fresh) ==
  LET n_constr == size(cs)
      dof == dof_count(M)
      nb == mBodiesSize(M)
  IN  [cs EXCEPT
         !.H = MatConservativeResize(@, dof, dof, fresh),
         !.C = VecConservativeResize(@, dof, fresh),
         !.gamma = VecConservativeResize(@, n_constr, fresh),
         !.G = MatConservativeResize(@, n_constr, dof, fresh),
         !.A = MatConservativeResize(@, dof + n_constr, dof + n_constr, fresh),
         !.b = VecConservativeResize(@, dof + n_constr, fresh),
         !.x = VecConservativeResize(@, dof + n_constr, fresh),
         !.K = MatConservativeResize(@, n_constr, n_constr, fresh),
         !.a = VecConservativeResize(@, n_constr, fresh),
         !.QDDot_t = VecConservativeResize(@, dof, fresh),
         !.QDDot_0 = VecConservativeResize(@, dof, fresh),
         !.f_t = StdResize(@, n_constr, Zero3),
         !.f_ext_constraints = StdResize(@, nb, Zero3),
         !.point_accel_0 = StdResize(@, n_constr, Zero3),
         !.d_pA = VecConst(nb, Zero3),
         !.d_a = VecConst(nb, Zero3),
         !.d_u = VecConst(nb, R(0)),
         !.d_IA = VecConst(nb, M3Scalar(R(1))),
         !.d_U = VecConst(nb, Zero3),
         !.d_d = VecConst(nb, R(0)),
         !.bound = TRUE]

\* Bind without the assertion of line 57
BindUnchecked ==
  /\ Alive
  /\ CS' = BindCS(CS, model, uninit)
  /\ call' = [fn |-> "Bind", Tau |-> <<>>, result |-> "ok", log |-> NoLog]
  /\ UNCHANGED <<model, mdl, QDDot, uninit>>

Bind ==
  /\ Alive
  /\ IF CS.bound = FALSE
     THEN /\ CS' = BindCS(CS, model, uninit)
          /\ call' = [fn |-> "Bind", Tau |-> <<>>, result |-> "ok", log |-> NoLog]
     ELSE /\ CS' = CS
          /\ call' = [fn |-> "Bind", Tau |-> <<>>, result |-> "violation", log |-> NoLog]
  /\ UNCHANGED <<model, mdl, QDDot, uninit>>

\* a clear that empties the per-constraint buffers instead of zeroing them
clearShrinking(cs) ==
  [cs EXCEPT !.constraint_force = VecSetZero(@),
             !.K = MatConst(0, 0, R(0)), !.a = <<>>, !.f_t = <<>>,
             !.point_accel_0 = <<>>]

clearCS(cs) ==
  [cs EXCEPT
     !.constraint_acceleration = VecSetZero(@),
     !.constraint_force = VecSetZero(@),
     !.H = MatSetZero(@), !.C = VecSetZero(@), !.gamma = VecSetZero(@),
     !.G = MatSetZero(@), !.A = MatSetZero(@), !.b = VecSetZero(@), !.x = VecSetZero(@),
     !.K = MatSetZero(@), !.a = VecSetZero(@),
     !.QDDot_t = VecSetZero(@), !.QDDot_0 = VecSetZero(@),
     !.f_t = set_zero(@), !.f_ext_constraints = set_zero(@),
     !.point_accel_0 = set_zero(@), !.d_pA = set_zero(@), !.d_a = set_zero(@),
     !.d_u = VecSetZero(@)]

clear ==
  /\ Alive
  /\ CS' = clearCS(CS)
  /\ call' = [fn |-> "clear", Tau |-> <<>>, result |-> "ok", log |-> NoLog]
  /\ UNCHANGED <<model, mdl, QDDot, uninit>>

(***************************************************************************)
(* ForwardDynamicsContactsLagrangian.  A solve threads the record          *)
(* [cs, mdl, QDDot, log, ok] through its steps; ok turns FALSE at the      *)
(* first failed assertion and the remaining steps are then not executed.   *)
(***************************************************************************)
Logged(X, name, i) == [X EXCEPT !.log = Append(@, [op |-> name, ci |-> i])]

Violation(X) == [X EXCEPT !.ok = FALSE]

\* lines 154-163 without the assertion: axis_index keeps its initial 0
AxisIndexUnchecked(n) ==
  IF n = AxisX THEN 0 ELSE IF n = AxisY THEN 1 ELSE IF n = AxisZ THEN 2 ELSE 0

\* lines 154-163: the axis of a contact normal, 3 for "Invalid contact
\* normal axis!"
AxisIndex(n) ==
  IF n = AxisX THEN 0 ELSE IF n = AxisY THEN 1 ELSE IF n = AxisZ THEN 2 ELSE 3

\* lines 152-175: the rows of G, constraints i, i+1, ..
RECURSIVE ComputeG(_, _, _, _, _, _)
ComputeG(M, i, X, prev_body_id, prev_body_point, Gi) ==
  IF ~X.ok \/ i >= size(X.cs) THEN X
  ELSE LET axis_index == AxisIndex(X.cs.normal[i])
           recompute == prev_body_id # X.cs.body[i] \/ prev_body_point # X.cs.point[i]
           Gn == IF recompute
                 THEN CalcPointJacobian(M, X.cs.body[i], X.cs.point[i])
                 ELSE Gi
           X1 == IF recompute THEN Logged(X, "CalcPointJacobian", i) ELSE X
           X2 == [X1 EXCEPT !.cs.G.at =
                    [p \in DOMAIN @ |->
                       IF p[1] = i THEN Gn.at[<<axis_index, p[2]>>] ELSE @[p]]]
       IN  IF axis_index = 3 THEN Violation(X)
           ELSE ComputeG(M, i + 1, X2, X.cs.body[i], X.cs.point[i], Gn)

\* lines 185-208: gamma, constraints i, i+1, ..
RECURSIVE ComputeGamma(_, _, _, _, _, _)
ComputeGamma(M, i, X, prev_body_id, prev_body_point, gamma_i) ==
  IF ~X.ok \/ i >= size(X.cs) THEN X
  ELSE LET axis_index == AxisIndex(X.cs.normal[i])
           recompute == prev_body_id # X.cs.body[i] \/ prev_body_point # X.cs.point[i]
           gn == IF recompute
                 THEN CalcPointAcceleration(M, X.mdl, X.cs.body[i], X.cs.point[i])
                 ELSE gamma_i
           X1 == IF recompute THEN Logged(X, "CalcPointAcceleration", i) ELSE X
           X2 == [X1 EXCEPT !.cs.gamma[i] =
                    RSub(gn[axis_index], X.cs.constraint_acceleration[i])]
       IN  IF axis_index = 3 THEN Violation(X)
           ELSE ComputeGamma(M, i + 1, X2, X.cs.body[i], X.cs.point[i], gn)

\* lines 215-238 without the setZero of lines 211-213
BuildSystemStale(M, cs, Tau) ==
  LET dof == dof_count(M)
      AH == [cs.A EXCEPT !.at = [p \in DOMAIN @ |->
                IF p[1] < dof /\ p[2] < dof THEN cs.H.at[p] ELSE @[p]]]
      AG == [AH EXCEPT !.at = [p \in DOMAIN @ |->
                IF p[1] >= dof /\ p[1] - dof < size(cs) /\ p[2] < dof
                THEN cs.G.at[<<p[1] - dof, p[2]>>]
                ELSE IF p[2] >= dof /\ p[2] - dof < size(cs) /\ p[1] < dof
                THEN cs.G.at[<<p[2] - dof, p[1]>>]
                ELSE @[p]]]
      b1 == [i \in DOMAIN cs.b |->
               IF i < dof THEN RAdd(RNeg(cs.C[i]), Tau[i]) ELSE cs.b[i]]
      b2 == [i \in DOMAIN b1 |->
               IF i >= dof /\ i - dof < size(cs) THEN RNeg(cs.gamma[i - dof]) ELSE b1[i]]
  IN  [cs EXCEPT !.A = AG, !.b = b2]

\* lines 210-238: A = [[H, G^T], [G, 0]] and b = [Tau - C; -gamma]
BuildSystem(M, cs, Tau) ==
  LET dof == dof_count(M)
      A0 == MatSetZero(cs.A)
      AH == [A0 EXCEPT !.at = [p \in DOMAIN @ |->
                IF p[1] < dof /\ p[2] < dof THEN cs.H.at[p] ELSE @[p]]]
      AG == [AH EXCEPT !.at = [p \in DOMAIN @ |->
                IF p[1] >= dof /\ p[1] - dof < size(cs) /\ p[2] < dof
                THEN cs.G.at[<<p[1] - dof, p[2]>>]
                ELSE IF p[2] >= dof /\ p[2] - dof < size(cs) /\ p[1] < dof
                THEN cs.G.at[<<p[2] - dof, p[1]>>]
                ELSE @[p]]]
      b0 == VecSetZero(cs.b)
      b1 == [i \in DOMAIN b0 |-> IF i < dof THEN RAdd(RNeg(cs.C[i]), Tau[i]) ELSE b0[i]]
      b2 == [i \in DOMAIN b1 |->
               IF i >= dof /\ i - dof < size(cs) THEN RNeg(cs.gamma[i - dof]) ELSE b1[i]]
  IN  [cs EXCEPT !.A = AG, !.b = b2, !.x = VecSetZero(@)]

\* lines 263-270: copy back QDDot and the contact forces
CopyBack(M, X) ==
  IF ~X.ok THEN X
  ELSE [X EXCEPT
          !.QDDot = [i \in DOMAIN @ |-> IF i < dof_count(M) THEN X.cs.x[i] ELSE @[i]],
          !.cs.constraint_force =
             [i \in DOMAIN @ |->
                IF i < size(X.cs) THEN X.cs.x[dof_count(M) + i] ELSE @[i]]]

\* lines 136-137: QDDot_0.setZero(); InverseDynamics writes C
LagrangianBias(M, X) ==
  IF VecSize(X.cs.QDDot_0) = dof_count(M) /\ VecSize(X.cs.C) = dof_count(M)
  THEN [Logged(X, "InverseDynamics", -1)
          EXCEPT !.cs.QDDot_0 = VecSetZero(@),
                 !.cs.C = InverseDynamics(M, VecSetZero(X.cs.QDDot_0))]
  ELSE Violation([Logged(X, "InverseDynamics", -1)
                    EXCEPT !.cs.QDDot_0 = VecSetZero(@)])

\* lines 139-142: the assertion on H, then CompositeRigidBodyAlgorithm
LagrangianInertia(M, X) ==
  IF ~X.ok THEN X
  ELSE IF X.cs.H.cols = dof_count(M) /\ X.cs.H.rows = dof_count(M)
  THEN [Logged(X, "CompositeRigidBodyAlgorithm", -1)
          EXCEPT !.cs.H = CompositeRigidBodyAlgorithm(M)]
  ELSE Violation(X)

\* line 183
LagrangianKinematics(M, X) ==
  IF ~X.ok THEN X
  ELSE [Logged(X, "UpdateKinematics", -1)
          EXCEPT !.mdl = UpdateKinematicsCustom(M, X.mdl, X.cs.QDDot_0)]

\* lines 210-238
LagrangianSystem(M, X, Tau) ==
  IF ~X.ok THEN X ELSE [X EXCEPT !.cs = BuildSystem(M, X.cs, Tau)]

\* lines 244-255
LagrangianSolve(X) ==
  IF ~X.ok THEN X
  ELSE IF X.cs.linear_solver \in LinearSolvers
  THEN [Logged(X, "solve", -1) EXCEPT !.cs.x = LinSolve(X.cs.A, X.cs.b)]
  ELSE Violation(X)

\* the whole call; Gi0 is the content of the uninitialized MatrixNd Gi
LagrangianSteps(M, X0, Tau, Gi0) ==
  CopyBack(M,
    LagrangianSolve(
      LagrangianSystem(M,
        ComputeGamma(M, 0,
          LagrangianKinematics(M,
            ComputeG(M, 0, LagrangianInertia(M, LagrangianBias(M, X0)),
                     0, Zero3, MatConst(3, dof_count(M), Gi0))),
          0, Zero3, Zero3),
        Tau)))

Entry == [cs |-> CS, mdl |-> mdl, QDDot |-> QDDot, log |-> NoLog, ok |-> TRUE]

Returned(X, name, Tau) ==
  /\ CS' = X.cs
  /\ mdl' = X.mdl
  /\ QDDot' = X.QDDot
  /\ call' = [fn |-> name, Tau |-> Tau,
              result |-> IF X.ok THEN "ok" ELSE "violation", log |-> X.log]
  /\ UNCHANGED <<model, uninit>>

ForwardDynamicsContactsLagrangian(Tau) ==
  /\ Alive
  /\ Returned(LagrangianSteps(model, Entry, Tau, uninit),
              "ForwardDynamicsContactsLagrangian", Tau)

(***************************************************************************)
(* ForwardDynamicsAccelerationDeltas: the accelerations caused by the one  *)
(* external force f_t[body_id], from the U and d of the last               *)
(* ForwardDynamics.                                                        *)
(***************************************************************************)
\* lines 642-653: bodies i, i-1, .., 1
RECURSIVE DeltasUp(_, _, _, _, _)
DeltasUp(M, i, X, body_id, f_t) ==
  IF i = 0 THEN X
  ELSE LET pAi == IF i = body_id THEN V3Sub(Zero3, f_t[i]) ELSE X.cs.d_pA[i]
           dui == RNeg(V3Dot(S(M, i), pAi))
           lam == M.lambda[i]
           X1 == [X EXCEPT !.cs.d_pA[i] = pAi, !.cs.d_u[i] = dui]
           X2 == IF lam # 0
                 THEN [X1 EXCEPT !.cs.d_pA[lam] =
                         V3Add(@, V3Add(pAi, V3DivS(V3Scale(X.mdl.U[i], dui), X.mdl.d[i])))]
                 ELSE X1
       IN  DeltasUp(M, i - 1, X2, body_id, f_t)

\* lines 669-678: bodies i, i+1, .., nb-1
RECURSIVE DeltasDown(_, _, _)
DeltasDown(M, i, X) ==
  IF i >= mBodiesSize(M) THEN X
  ELSE LET lam == M.lambda[i]
           Xa == X.cs.d_a[lam]
           qdd == RDiv(RSub(X.cs.d_u[i], V3Dot(X.mdl.U[i], Xa)), X.mdl.d[i])
       IN  DeltasDown(M, i + 1,
                      [X EXCEPT !.cs.QDDot_t[i - 1] = qdd,
                                !.cs.d_a[i] = V3Add(Xa, V3Scale(S(M, i), qdd))])

\* lines 636-640
DeltasReset(X) ==
  [X EXCEPT !.cs.d_pA = set_zero(@), !.cs.d_a = set_zero(@), !.cs.d_u = VecSetZero(@)]

\* lines 666-667
DeltasBase(X) == [X EXCEPT !.cs.QDDot_t[0] = R(0), !.cs.d_a[0] = X.mdl.a[0]]

ForwardDynamicsAccelerationDeltas(M, X, body_id, f_t) ==
  \* lines 631-633
  IF /\ VecSize(X.cs.d_pA) = mBodiesSize(M)
     /\ VecSize(X.cs.d_a) = mBodiesSize(M)
     /\ VecSize(X.cs.d_u) = mBodiesSize(M)
  THEN DeltasDown(M, 1, DeltasBase(DeltasUp(M, body_id, DeltasReset(X), body_id, f_t)))
  ELSE Violation(X)

(***************************************************************************)
(* ForwardDynamicsApplyConstraintForces: the accelerations under the       *)
(* external forces CS.f_ext_constraints.                                   *)
(***************************************************************************)
\* lines 394-403, body i
ApplyBias(M, cs, i) ==
  IF cs.f_ext_constraints[i] # Zero3
  THEN V3Sub(Zero3, cs.f_ext_constraints[i])
  ELSE Zero3

\* lines 405-424: bodies i, i-1, .., 1
RECURSIVE ApplyUp(_, _, _)
ApplyUp(M, i, X) ==
  IF i = 0 THEN X
  ELSE IF JointTypeFixed(M, i) THEN ApplyUp(M, i - 1, X)
  ELSE LET Si == S(M, i)
           dU == M3MulV(X.cs.d_IA[i], Si)
           dd == V3Dot(Si, X.mdl.U[i])
           du == RSub(X.mdl.tau[i], V3Dot(Si, X.cs.d_pA[i]))
           lam == M.lambda[i]
           Ia == M3Sub(X.cs.d_IA[i], M3Outer(dU, V3DivS(dU, dd)))
           pa == V3Add(X.cs.d_pA[i], V3DivS(V3Scale(dU, du), dd))
           X1 == [X EXCEPT !.cs.d_U[i] = dU, !.cs.d_d[i] = dd, !.cs.d_u[i] = du]
       IN  ApplyUp(M, i - 1,
                   IF lam # 0
                   THEN [X1 EXCEPT !.cs.d_IA[lam] = M3Add(@, Ia),
                                   !.cs.d_pA[lam] = V3Add(@, pa)]
                   ELSE X1)

\* lines 451-471: bodies i, i+1, .., nb-1
RECURSIVE ApplyDown(_, _, _)
ApplyDown(M, i, X) ==
  IF i >= mBodiesSize(M) THEN X
  ELSE LET lam == M.lambda[i]
           a0 == IF lam = 0 THEN V3Scale(M.gravity, R(-1)) ELSE X.cs.d_a[lam]
       IN  IF JointTypeFixed(M, i)
           THEN ApplyDown(M, i + 1, [X EXCEPT !.cs.d_a[i] = a0, !.mdl.qddot[i] = R(0)])
           ELSE LET qdd == RDiv(RSub(X.cs.d_u[i], V3Dot(X.mdl.U[i], a0)), X.mdl.d[i])
                IN  ApplyDown(M, i + 1,
                              [X EXCEPT !.QDDot[i - 1] = qdd,
                                        !.cs.d_a[i] = V3Add(a0, V3Scale(S(M, i), qdd))])

\* lines 394-403
ApplyInit(M, X) ==
  [X EXCEPT
     !.cs.d_pA = [i \in DOMAIN @ |-> IF i >= 1 THEN ApplyBias(M, X.cs, i) ELSE @[i]],
     !.cs.d_IA = [i \in DOMAIN @ |-> IF i >= 1 THEN mSpatialInertia(M, i) ELSE @[i]]]

ForwardDynamicsApplyConstraintForces(M, X) ==
  \* line 390
  IF VecSize(X.QDDot) = dof_count(M)
  THEN ApplyDown(M, 1, ApplyUp(M, mBodiesSize(M) - 1, ApplyInit(M, X)))
  ELSE Violation(X)

(***************************************************************************)
(* ForwardDynamicsContacts: the compliance engine.                         *)
(***************************************************************************)
\* line 741
BaselineKinematics(M, ci, X) ==
  [Logged(X, "UpdateKinematicsCustom", ci)
     EXCEPT !.mdl = UpdateKinematicsCustom(M, X.mdl, X.cs.QDDot_0)]

\* lines 742-744
BaselinePoint(ci, X, pa) ==
  [Logged(X, "CalcPointAcceleration", ci)
     EXCEPT !.cs.point_accel_0[ci] = pa,
            !.cs.a[ci] = RSub(X.cs.constraint_acceleration[ci],
                              V3Dot(X.cs.normal[ci], pa))]

\* lines 742-744, on the kinematics of line 741
BaselineAcceleration(M, ci, X) ==
  BaselinePoint(ci, X, CalcPointAcceleration(M, X.mdl, X.cs.body[ci], X.cs.point[ci]))

\* lines 729-747: the baseline point accelerations and residuals
RECURSIVE BaselineLoop(_, _, _)
BaselineLoop(M, ci, X) ==
  IF ci >= size(X.cs) THEN X
  ELSE BaselineLoop(M, ci + 1, BaselineAcceleration(M, ci, BaselineKinematics(M, ci, X)))

\* lines 787-797: row ci of K
RECURSIVE FillK(_, _, _, _)
FillK(M, ci, cj, X) ==
  IF cj >= size(X.cs) THEN X
  ELSE LET point_accel_t == CalcPointAcceleration(M, X.mdl, X.cs.body[cj], X.cs.point[cj])
       IN  FillK(M, ci, cj + 1,
                 [Logged(X, "CalcPointAcceleration", cj)
                    EXCEPT !.cs.K.at[<<ci, cj>>] =
                      V3Dot(X.cs.normal[cj], V3Sub(point_accel_t, X.cs.point_accel_0[cj]))])

\* lines 761-766: the unit force along -normal at the point
TestForce(ci, X) ==
  [Logged(X, "CalcBodyToBaseCoordinates", ci)
     EXCEPT !.cs.f_t[ci] = V3Sub(Zero3, X.cs.normal[ci]),
            !.cs.f_ext_constraints[X.cs.body[ci]] = V3Sub(Zero3, X.cs.normal[ci])]

\* line 771
TestForceDeltas(M, ci, X) ==
  ForwardDynamicsAccelerationDeltas(
    M, Logged(X, "ForwardDynamicsAccelerationDeltas", ci),
    X.cs.body[ci], X.cs.f_ext_constraints)

\* lines 776-779 without the setZero of line 776
TestForceSumKeeping(ci, X) ==
  IF ~X.ok THEN X
  ELSE [X EXCEPT !.cs.QDDot_t = [i \in DOMAIN @ |-> RAdd(@[i], X.cs.QDDot_0[i])]]

\* lines 776-779
TestForceSum(ci, X) ==
  IF ~X.ok THEN X
  ELSE [X EXCEPT !.cs.f_ext_constraints[X.cs.body[ci]] = Zero3,
                 !.cs.QDDot_t = [i \in DOMAIN @ |-> RAdd(@[i], X.cs.QDDot_0[i])]]

\* line 784
TestForceKinematics(M, ci, X) ==
  IF ~X.ok THEN X
  ELSE [Logged(X, "UpdateKinematicsCustom", ci)
          EXCEPT !.mdl = UpdateKinematicsCustom(M, X.mdl, X.cs.QDDot_t)]

\* lines 787-797
TestForceRow(M, ci, X) == IF ~X.ok THEN X ELSE FillK(M, ci, 0, X)

\* lines 751-860: the test forces
RECURSIVE TestForceLoop(_, _, _)
TestForceLoop(M, ci, X) ==
  IF ~X.ok \/ ci >= size(X.cs) THEN X
  ELSE TestForceLoop(M, ci + 1,
         TestForceRow(M, ci,
           TestForceKinematics(M, ci,
             TestForceSum(ci, TestForceDeltas(M, ci, TestForce(ci, X))))))

\* lines 885-890
RECURSIVE AccumulateForces(_, _)
AccumulateForces(ci, cs) ==
  IF ci >= size(cs) THEN cs
  ELSE AccumulateForces(ci + 1,
         [cs EXCEPT !.f_ext_constraints[cs.body[ci]] =
            V3Add(@, V3Scale(cs.f_t[ci], cs.constraint_force[ci]))])

\* lines 700-708
ContactsSizesOk(M, cs) ==
  /\ VecSize(cs.f_ext_constraints) = mBodiesSize(M)
  /\ VecSize(cs.QDDot_0) = dof_count(M)
  /\ VecSize(cs.QDDot_t) = dof_count(M)
  /\ VecSize(cs.f_t) = size(cs)
  /\ VecSize(cs.point_accel_0) = size(cs)
  /\ cs.K.rows = size(cs)
  /\ cs.K.cols = size(cs)
  /\ VecSize(cs.constraint_force) = size(cs)
  /\ VecSize(cs.a) = size(cs)

\* line 717, fd being what ForwardDynamics returns
ContactsDefault(X, fd) ==
  [Logged(X, "ForwardDynamics", -1) EXCEPT !.cs.QDDot_0 = fd.QDDot, !.mdl = fd.mdl]

\* lines 866-877
ContactsSolve(X) ==
  IF ~X.ok THEN X
  ELSE IF X.cs.linear_solver \in LinearSolvers
  THEN [Logged(X, "solve", -1) EXCEPT !.cs.constraint_force = LinSolve(X.cs.K, X.cs.a)]
  ELSE Violation(X)

\* lines 885-890
ContactsForces(X) ==
  IF ~X.ok THEN X ELSE [X EXCEPT !.cs = AccumulateForces(0, X.cs)]

\* lines 892-895 as a full forward dynamics pass, the way the legacy path
\* ends at line 612
ContactsApplyFullPass(M, X) ==
  IF ~X.ok THEN X
  ELSE ForwardDynamicsApplyConstraintForces(M, Logged(X, "ForwardDynamics", -1))

\* lines 892-895
ContactsApply(M, X) ==
  IF ~X.ok THEN X
  ELSE ForwardDynamicsApplyConstraintForces(
         M, Logged(X, "ForwardDynamicsApplyConstraintForces", -1))

ContactsSteps(M, X0, Tau) ==
  IF ~ContactsSizesOk(M, X0.cs) THEN Violation(X0)
  ELSE ContactsApply(M,
         ContactsForces(
           ContactsSolve(
             TestForceLoop(M, 0,
               BaselineLoop(M, 0,
                 ContactsDefault(
                   X0, ForwardDynamics(M, X0.mdl, Tau, VecConst(M.nb, Zero3))))))))

ForwardDynamicsContacts(Tau) ==
  /\ Alive
  /\ Returned(ContactsSteps(model, Entry, Tau), "ForwardDynamicsContacts", Tau)

(***************************************************************************)
(* ForwardDynamicsContactsOld: the legacy path on a transient workspace W. *)
(* The log keeps every element access to f_t, point_accel_0 and            *)
(* f_ext_constraints as the name of the vector and the index used.         *)
(***************************************************************************)
\* lines 488-496
OldWorkspace(M, ContactData) ==
  [ContactData |-> ContactData,
   f_t |-> VecConst(VecSize(ContactData), Zero3),
   f_ext_constraints |-> VecConst(mBodiesSize(M), Zero3),
   point_accel_0 |-> VecConst(VecSize(ContactData), Zero3),
   QDDot_0 |-> VecConst(dof_count(M), R(0)),
   QDDot_t |-> VecConst(dof_count(M), R(0)),
   K |-> MatConst(VecSize(ContactData), VecSize(ContactData), R(0)),
   f |-> VecConst(VecSize(ContactData), R(0)),
   a |-> VecConst(VecSize(ContactData), R(0)),
   mdl |-> mdl, QDDot |-> QDDot, log |-> NoLog, ok |-> TRUE]

\* line 505, fd being what ForwardDynamics returns
OldDefault(W, fd) == [W EXCEPT !.QDDot_0 = fd.QDDot, !.mdl = fd.mdl]

\* lines 510-512 and 597-599, elements fi, fi+1, ..
RECURSIVE OldReset(_, _)
OldReset(fi, W) ==
  IF ~W.ok \/ fi >= VecSize(W.f_ext_constraints) THEN W
  ELSE OldReset(fi + 1, [Logged(W, "f_ext_constraints", fi)
                           EXCEPT !.f_ext_constraints[fi] = Zero3])

\* line 525
OldBaselineKinematics(M, W) ==
  [W EXCEPT !.mdl = UpdateKinematicsCustom(M, W.mdl, W.QDDot_0)]

\* lines 526-530, pa being the point acceleration
OldBaselinePoint(ci, W, pa) ==
  [Logged(W, "point_accel_0", ci)
     EXCEPT !.point_accel_0[ci] = pa,
            !.a[ci] = RSub(W.ContactData[ci].acceleration,
                           V3Dot(W.ContactData[ci].normal, pa))]

\* lines 526-530, on the kinematics of line 525
OldBaselineAcceleration(M, ci, W) ==
  OldBaselinePoint(ci, W, CalcPointAcceleration(M, W.mdl, W.ContactData[ci].body_id,
                                                W.ContactData[ci].point))

\* lines 517-531
RECURSIVE OldBaselineLoop(_, _, _)
OldBaselineLoop(M, ci, W) ==
  IF ci >= VecSize(W.ContactData) THEN W
  ELSE OldBaselineLoop(M, ci + 1,
         OldBaselineAcceleration(M, ci, OldBaselineKinematics(M, W)))

\* lines 548-552
OldTestForce(ci, W) ==
  [Logged(Logged(W, "f_t", ci), "f_ext_constraints", W.ContactData[ci].body_id)
     EXCEPT !.f_t[ci] = V3Sub(Zero3, W.ContactData[ci].normal),
            !.f_ext_constraints[W.ContactData[ci].body_id] =
              V3Sub(Zero3, W.ContactData[ci].normal)]

\* line 553: f_t[body_id] is read for the log; a read past the end of f_t
\* either ends the process (crash) or yields a value that only the log sees
OldTestForceLog(ci, W, crash) ==
  IF W.ContactData[ci].body_id >= VecSize(W.f_t) /\ crash
  THEN Violation(Logged(W, "f_t", W.ContactData[ci].body_id))
  ELSE Logged(W, "f_t", W.ContactData[ci].body_id)

\* lines 558-563, fd being what ForwardDynamics returns
OldTestForceDynamics(ci, W, fd) ==
  [Logged(W, "f_ext_constraints", W.ContactData[ci].body_id)
     EXCEPT !.QDDot_t = fd.QDDot, !.mdl = fd.mdl,
            !.f_ext_constraints[W.ContactData[ci].body_id] = Zero3]

\* lines 558-563
OldTestForcePass(M, ci, W, Tau) ==
  IF ~W.ok THEN W
  ELSE OldTestForceDynamics(ci, W, ForwardDynamics(M, W.mdl, Tau, W.f_ext_constraints))

\* line 568
OldTestForceKinematics(M, W) ==
  IF ~W.ok THEN W
  ELSE [W EXCEPT !.mdl = UpdateKinematicsCustom(M, W.mdl, W.QDDot_t)]

\* lines 571-581: column ci of K
RECURSIVE OldFillK(_, _, _, _)
OldFillK(M, ci, cj, W) ==
  IF ~W.ok \/ cj >= VecSize(W.ContactData) THEN W
  ELSE OldFillK(M, ci, cj + 1,
         [Logged(Logged(W, "point_accel_0", ci), "point_accel_0", cj)
            EXCEPT !.K.at[<<cj, ci>>] =
              V3Dot(W.ContactData[cj].normal,
                    V3Sub(CalcPointAcceleration(M, W.mdl, W.ContactData[cj].body_id,
                                                W.ContactData[cj].point),
                          W.point_accel_0[cj]))])

\* lines 535-582
RECURSIVE OldTestForceLoop(_, _, _, _, _)
OldTestForceLoop(M, ci, W, Tau, crash) ==
  IF ~W.ok \/ ci >= VecSize(W.ContactData) THEN W
  ELSE OldTestForceLoop(M, ci + 1,
         OldFillK(M, ci, 0,
           OldTestForceKinematics(M,
             OldTestForcePass(M, ci,
               OldTestForceLog(ci, OldTestForce(ci, W), crash), Tau))),
         Tau, crash)

\* line 589
OldSolve(W) == IF ~W.ok THEN W ELSE [W EXCEPT !.f = LinSolve(W.K, W.a)]

\* lines 601-607
RECURSIVE OldForces(_, _)
OldForces(ci, W) ==
  IF ~W.ok \/ ci >= VecSize(W.ContactData) THEN W
  ELSE OldForces(ci + 1,
         [Logged(Logged(W, "f_ext_constraints", W.ContactData[ci].body_id), "f_t", ci)
            EXCEPT !.ContactData[ci].force = W.f[ci],
                   !.f_ext_constraints[W.ContactData[ci].body_id] =
                     V3Add(@, V3Scale(W.f_t[ci], W.f[ci]))])

\* line 612, fd being what ForwardDynamics returns
OldFinal(W, fd) == [W EXCEPT !.QDDot = fd.QDDot, !.mdl = fd.mdl]

\* line 612
OldFinalPass(M, W, Tau) ==
  IF ~W.ok THEN W
  ELSE OldFinal(W, ForwardDynamics(M, W.mdl, Tau, W.f_ext_constraints))

OldSteps(M, W0, Tau, crash) ==
  OldFinalPass(M,
    OldForces(0,
      OldReset(0,
        OldSolve(
          OldTestForceLoop(M, 0,
            OldBaselineLoop(M, 0,
              OldReset(0,
                OldDefault(W0, ForwardDynamics(M, W0.mdl, Tau, VecConst(M.nb, Zero3))))),
            Tau, crash)))),
    Tau)

\* the caller's ContactData (with the forces), QDDot and the model scratch
\* after the call; the ConstraintSet is not used
ReturnedOld(W, Tau) ==
  /\ mdl' = W.mdl
  /\ QDDot' = W.QDDot
  /\ call' = [fn |-> "ForwardDynamicsContactsOld", Tau |-> Tau,
              result |-> IF W.ok THEN "ok" ELSE "violation", log |-> W.log,
              ContactData |-> W.ContactData]
  /\ UNCHANGED <<model, uninit, CS>>

ForwardDynamicsContactsOld(Tau, ContactData, crash) ==
  /\ Alive
  /\ ReturnedOld(OldSteps(model, OldWorkspace(model, ContactData), Tau, crash), Tau)

\* the caller registers one of the constraints of inputs, at most cap of them
Register(inputs, cap) ==
  \E c \in inputs :
    /\ CS.bound \/ size(CS) < cap
    /\ AddConstraint(c.body_id, c.body_point, c.world_normal, c.constraint_name,
                     c.acceleration)

SolveLagrangian == \E Tau \in Taus(model) : ForwardDynamicsContactsLagrangian(Tau)

SolveContacts == \E Tau \in Taus(model) : ForwardDynamicsContacts(Tau)

Next ==
  \/ Register(ConstraintInputs, MaxConstraints)
  \/ Bind
  \/ clear
  \/ SolveLagrangian
  \/ SolveContacts

Spec == Init /\ [][Next]_vars

NextAxis ==
  \/ Register(AxisInputs, MaxAxisConstraints)
  \/ Bind
  \/ SolveLagrangian
  \/ SolveContacts

SpecAxis == Init /\ [][NextAxis]_vars

NextCache ==
  \/ Register(CacheInputs, MaxCacheConstraints)
  \/ Bind
  \/ SolveLagrangian

SpecCache == Init /\ [][NextCache]_vars

\* a tree with a branch, otherwise as Init
InitBranch ==
  /\ model \in BranchModels
  /\ mdl = ModelScratch(model)
  /\ CS = NewConstraintSet(DefaultSolver)
  /\ uninit \in UninitializedValues
  /\ QDDot = VecConst(dof_count(model), uninit)
  /\ call = [fn |-> "none", Tau |-> <<>>, result |-> "ok", log |-> NoLog]

\* a caller of ForwardDynamicsAccelerationDeltas (lines 622-628) that, as
\* line 771 does, calls it on the U and d of a forward dynamics pass, with
\* the force f on body body_id; the log keeps body_id
AccelerationDeltas(body_id, f) ==
  /\ Alive
  /\ call.fn \in {"ForwardDynamicsContacts", "ForwardDynamicsAccelerationDeltas"}
  /\ Returned(ForwardDynamicsAccelerationDeltas(
                model, Logged(Entry, "body_id", body_id), body_id,
                [i \in 0 .. mBodiesSize(model) - 1 |-> IF i = body_id THEN f ELSE Zero3]),
              "ForwardDynamicsAccelerationDeltas", <<>>)

SolveDeltas ==
  \E body_id \in 1 .. mBodiesSize(model) - 1 : \E f \in TestForces :
    AccelerationDeltas(body_id, f)

NextBranch ==
  \/ Register(BranchInputs, MaxBranchConstraints)
  \/ Bind
  \/ SolveContacts
  \/ SolveDeltas

SpecBranch == InitBranch /\ [][NextBranch]_vars

SolveOld ==
  \E Tau \in Taus(model) : \E ContactData \in ContactLists : \E crash \in BOOLEAN :
    ForwardDynamicsContactsOld(Tau, ContactData, crash)

NextOld == SolveOld

SpecOld == Init /\ [][NextOld]_vars

(***************************************************************************)
(* Properties.                                                             *)
(***************************************************************************)
Solvers == {"ForwardDynamicsContactsLagrangian", "ForwardDynamicsContacts"}

Axes == {AxisX, AxisY, AxisZ}

AxisAligned(cs) == \A i \in 0 .. size(cs) - 1 : cs.normal[i] \in Axes

ConsistentStep ==
  ( /\ call.fn \in Solvers /\ call.result = "ok"
    /\ call'.fn \in Solvers /\ call'.fn # call.fn /\ call'.result = "ok"
    /\ call'.Tau = call.Tau
    /\ AxisAligned(CS)
    /\ NonSingular(CS'.K) )
  => /\ QDDot' = QDDot
     /\ CS'.constraint_force = CS.constraint_force

\* C1 (consistency between methods): when the compliance engine runs right
\* after the Lagrangian solver, or the Lagrangian solver right after the
\* compliance engine, on the same bound ConstraintSet with the same Tau, the
\* constraints being axis-aligned and the compliance matrix K nonsingular,
\* the second call leaves in QDDot and in constraint_force the values the
\* first call had left there.
C1_Consistency == [][ConsistentStep]_vars

\* C1 on the trees without a fixed joint
C1_ConsistencyWithoutFixedJoints == [][model.fixed = {0} => ConsistentStep]_vars

\* both solvers have run with two coupled constraints and agree on finite
\* nonzero forces
C1_ConsistencyReached ==
  /\ model = ChainModel
  /\ call.fn = "ForwardDynamicsContacts" /\ call.result = "ok"
  /\ size(CS) = 2 /\ AxisAligned(CS) /\ NonSingular(CS.K)
  /\ CS.K.at[<<0, 1>>] # R(0)
  /\ \A i \in 0 .. 1 : CS.constraint_force[i] = CS.x[dof_count(model) + i]
  /\ \A i \in 0 .. 1 : ~IsNaN(CS.constraint_force[i]) /\ CS.constraint_force[i] # R(0)
  /\ \A i \in 0 .. 1 : QDDot[i] = CS.x[i]

\* a solve by the function named fn, as a function of the state at its entry
Solve(fn, X, Tau) ==
  IF fn = "ForwardDynamicsContactsLagrangian"
  THEN LagrangianSteps(model, X, Tau, uninit)
  ELSE ContactsSteps(model, X, Tau)

\* C2 (idempotent reuse): after a solve on a bound ConstraintSet, solving
\* again with the same Tau and the same solver gives the same QDDot and
\* constraint_force whether or not clear() is called in between.
C2_IdempotentReuse ==
  (CS.bound /\ call.fn \in Solvers /\ call.result = "ok")
  => LET again == Solve(call.fn, Entry, call.Tau)
         cleared == Solve(call.fn, [Entry EXCEPT !.cs = clearCS(CS)], call.Tau)
     IN  /\ cleared.ok = again.ok
         /\ cleared.QDDot = again.QDDot
         /\ cleared.cs.constraint_force = again.cs.constraint_force

\* C3 (clear keeps the definitions): a clear() leaves name, body, point,
\* normal and constraint_acceleration of every constraint, and size(), as
\* they were.
C3_ClearKeepsDefinitions ==
  [][ call'.fn = "clear"
      => /\ CS'.name = CS.name
         /\ CS'.body = CS.body
         /\ CS'.point = CS.point
         /\ CS'.normal = CS.normal
         /\ CS'.constraint_acceleration = CS.constraint_acceleration
         /\ size(CS') = size(CS) ]_vars

\* C4 (axis invariant): a solve on a bound ConstraintSet with a normal that
\* is not a coordinate axis ends in a precondition violation, with no
\* collaborator called and no buffer written.
C4_AxisInvariant ==
  [][ (call'.fn \in Solvers /\ CS.bound /\ ~AxisAligned(CS))
      => /\ call'.result = "violation"
         /\ call'.log = NoLog
         /\ CS' = CS
         /\ mdl' = mdl
         /\ QDDot' = QDDot ]_vars

\* C5 (invalid normal in the Lagrangian solver): a call of
\* ForwardDynamicsContactsLagrangian with a normal, at any index, that is not
\* a coordinate axis ends in a precondition violation and writes neither
\* QDDot nor constraint_force.
C5_InvalidNormalAborts ==
  [][ (call'.fn = "ForwardDynamicsContactsLagrangian" /\ ~AxisAligned(CS))
      => /\ call'.result = "violation"
         /\ QDDot' = QDDot
         /\ CS'.constraint_force = CS.constraint_force ]_vars

\* the call has aborted at the middle one of three bound constraints, after
\* the Jacobian of the first
C5_AbortedAtMiddleNormal ==
  /\ call.fn = "ForwardDynamicsContactsLagrangian" /\ call.result = "violation"
  /\ CS.bound /\ size(CS) = 3
  /\ CS.normal[0] \in Axes /\ CS.normal[1] \notin Axes /\ CS.normal[2] \in Axes
  /\ \E k \in 1 .. Len(call.log) : call.log[k] = [op |-> "CalcPointJacobian", ci |-> 0]
  /\ QDDot = VecConst(dof_count(model), R(5))

\* C6 (assembly of the KKT system): when ForwardDynamicsContactsLagrangian
\* has returned, A = [[H, G^T], [G, 0]], b = [Tau - C; -gamma], QDDot is the
\* first dof entries of x and constraint_force the remaining ones.
C6_SystemAssembly ==
  (call.fn = "ForwardDynamicsContactsLagrangian" /\ call.result = "ok")
  => LET dof == dof_count(model)
         m == size(CS)
     IN  /\ \A i, j \in 0 .. dof - 1 : CS.A.at[<<i, j>>] = CS.H.at[<<i, j>>]
         /\ \A i \in 0 .. m - 1 : \A j \in 0 .. dof - 1 :
              /\ CS.A.at[<<dof + i, j>>] = CS.G.at[<<i, j>>]
              /\ CS.A.at[<<j, dof + i>>] = CS.G.at[<<i, j>>]
         /\ \A i, j \in 0 .. m - 1 : CS.A.at[<<dof + i, dof + j>>] = R(0)
         /\ \A k \in 0 .. dof - 1 : CS.b[k] = RSub(call.Tau[k], CS.C[k])
         /\ \A i \in 0 .. m - 1 : CS.b[dof + i] = RNeg(CS.gamma[i])
         /\ \A k \in 0 .. dof - 1 : QDDot[k] = CS.x[k]
         /\ \A i \in 0 .. m - 1 : CS.constraint_force[i] = CS.x[dof + i]

\* the solver has returned finite nonzero forces for two constraints, on
\* buffers that held nonzero values before
C6_SystemAssembled ==
  /\ call.fn = "ForwardDynamicsContactsLagrangian" /\ call.result = "ok"
  /\ uninit = R(5) /\ size(CS) = 2
  /\ \A i \in 0 .. 1 : ~IsNaN(CS.constraint_force[i]) /\ CS.constraint_force[i] # R(0)
  /\ \E p \in DOMAIN CS.G.at : CS.G.at[p] # R(0)

\* v extended by one entry
Appended(v, w) ==
  /\ VecSize(w) = VecSize(v) + 1
  /\ \A i \in 0 .. VecSize(v) - 1 : w[i] = v[i]

\* C7 (AddConstraint and Bind): an AddConstraint on a bound ConstraintSet
\* ends in a precondition violation and changes none of the parallel arrays;
\* on a ConstraintSet that is not bound it succeeds and appends one entry to
\* each of them.
C7_AddConstraintAfterBind ==
  [][ call'.fn = "AddConstraint"
      => IF CS.bound
         THEN /\ call'.result = "violation"
              /\ size(CS') = size(CS)
              /\ CS'.name = CS.name /\ CS'.body = CS.body
              /\ CS'.point = CS.point /\ CS'.normal = CS.normal
              /\ CS'.constraint_acceleration = CS.constraint_acceleration
              /\ CS'.constraint_force = CS.constraint_force
         ELSE /\ call'.result = "ok"
              /\ size(CS') = size(CS) + 1
              /\ Appended(CS.name, CS'.name) /\ Appended(CS.body, CS'.body)
              /\ Appended(CS.point, CS'.point) /\ Appended(CS.normal, CS'.normal)
              /\ Appended(CS.constraint_acceleration, CS'.constraint_acceleration)
              /\ Appended(CS.constraint_force, CS'.constraint_force) ]_vars

\* an AddConstraint has been refused on a bound ConstraintSet of two
\* constraints
C7_RefusedAfterBind ==
  /\ CS.bound /\ size(CS) = 2
  /\ call.fn = "AddConstraint" /\ call.result = "violation"

\* C8 (Bind at most once): a Bind on a bound ConstraintSet ends in a
\* precondition violation and changes nothing, and no step takes bound from
\* true to false.
C8_BindAtMostOnce ==
  [][ /\ CS.bound => CS'.bound
      /\ (call'.fn = "Bind" /\ CS.bound) => (call'.result = "violation" /\ CS' = CS)
      /\ (call'.fn = "Bind" /\ ~CS.bound) => (call'.result = "ok" /\ CS'.bound) ]_vars

\* a second Bind has been refused after solves had filled the workspace
C8_SecondBindRefused ==
  /\ CS.bound /\ size(CS) = 1
  /\ call.fn = "Bind" /\ call.result = "violation"
  /\ CS.K.at[<<0, 0>>] \notin {R(0), R(5), NaN}

\* the dimensions Bind gives to the workspace
BoundDimensions(M, cs) ==
  LET dof == dof_count(M)
      m == size(cs)
      nb == mBodiesSize(M)
  IN  /\ cs.H.rows = dof /\ cs.H.cols = dof
      /\ cs.K.rows = m /\ cs.K.cols = m
      /\ VecSize(cs.a) = m /\ VecSize(cs.f_t) = m
      /\ VecSize(cs.point_accel_0) = m /\ VecSize(cs.constraint_force) = m
      /\ VecSize(cs.QDDot_0) = dof /\ VecSize(cs.QDDot_t) = dof
      /\ VecSize(cs.f_ext_constraints) = nb
      /\ VecSize(cs.d_pA) = nb /\ VecSize(cs.d_a) = nb /\ VecSize(cs.d_u) = nb

\* C9 (dimensions fixed by Bind): in every state of a bound ConstraintSet
\* the workspace has the dimensions Bind gave it, the size assertions of
\* ForwardDynamicsContacts hold, and no call of ForwardDynamicsContacts has
\* ended in a violation.
C9_BindImmutability ==
  CS.bound
  => /\ BoundDimensions(model, CS)
     /\ ContactsSizesOk(model, CS)
     /\ call.fn = "ForwardDynamicsContacts" => call.result = "ok"

\* the compliance engine has run on a ConstraintSet of two constraints that
\* the Lagrangian solver had filled and clear() had zeroed
C9_SolvedAfterClear ==
  /\ CS.bound /\ size(CS) = 2 /\ uninit = R(5)
  /\ call.fn = "ForwardDynamicsContacts" /\ call.result = "ok"
  /\ \A p \in DOMAIN CS.A.at : CS.A.at[p] = R(0)
  /\ \E p \in DOMAIN CS.K.at : CS.K.at[p] # R(0)

\* C10 (fixed joints are inert): when ForwardDynamicsContacts has returned,
\* the entries of QDDot and, with at least one constraint, of QDDot_t that
\* belong to a fixed joint are zero.
C10_FixedJointsInert ==
  (call.fn = "ForwardDynamicsContacts" /\ call.result = "ok")
  => \A i \in 1 .. mBodiesSize(model) - 1 :
       JointTypeFixed(model, i)
       => /\ QDDot[i - 1] = R(0)
          /\ size(CS) > 0 => CS.QDDot_t[i - 1] = R(0)

\* the call log holds a call of op for constraint i
Called(op, i) == \E k \in 1 .. Len(call.log) : call.log[k] = [op |-> op, ci |-> i]

\* constraint i repeats the body and the point of constraint i - 1
SameAsPrevious(cs, i) ==
  i > 0 /\ cs.body[i] = cs.body[i - 1] /\ cs.point[i] = cs.point[i - 1]

\* C11 (the last-(body,point) cache is transparent): when
\* ForwardDynamicsContactsLagrangian has returned, row i of G is the axis row
\* of the point Jacobian of (body[i], point[i]), gamma[i] is the axis entry
\* of the point acceleration of (body[i], point[i]) minus the desired
\* acceleration, and CalcPointJacobian and CalcPointAcceleration were called
\* for constraint i exactly when i is the first constraint or (body[i],
\* point[i]) differs from the pair of constraint i - 1.
C11_CacheTransparent ==
  (call.fn = "ForwardDynamicsContactsLagrangian" /\ call.result = "ok")
  => \A i \in 0 .. size(CS) - 1 :
       LET axis_index == CHOOSE k \in 0 .. 2 : CS.normal[i] = <<AxisX, AxisY, AxisZ>>[k + 1]
       IN  /\ \A j \in 0 .. dof_count(model) - 1 :
                CS.G.at[<<i, j>>]
                  = CalcPointJacobian(model, CS.body[i], CS.point[i]).at[<<axis_index, j>>]
           /\ CS.gamma[i]
                = RSub(CalcPointAcceleration(model, mdl, CS.body[i], CS.point[i])[axis_index],
                       CS.constraint_acceleration[i])
           /\ Called("CalcPointJacobian", i) <=> ~SameAsPrevious(CS, i)
           /\ Called("CalcPointAcceleration", i) <=> ~SameAsPrevious(CS, i)

\* the Lagrangian solver has returned for a first constraint on body 0 at
\* the origin, followed by a constraint on another body
C11_SentinelConstraintFirst ==
  /\ call.fn = "ForwardDynamicsContactsLagrangian" /\ call.result = "ok"
  /\ size(CS) = 2 /\ uninit = R(5)
  /\ CS.body[0] = 0 /\ CS.point[0] = Zero3 /\ CS.body[1] # 0

\* the sum of constraint_force[i] * f_t[i] over the constraints i, i+1, ..
\* of body b
RECURSIVE ConstraintForceOn(_, _, _)
ConstraintForceOn(cs, b, i) ==
  IF i >= size(cs) THEN Zero3
  ELSE IF cs.body[i] = b
  THEN V3Add(V3Scale(cs.f_t[i], cs.constraint_force[i]), ConstraintForceOn(cs, b, i + 1))
  ELSE ConstraintForceOn(cs, b, i + 1)

\* C12 (no external force carries over): every step that returns from
\* ForwardDynamicsContacts, whatever the calls before it left in the
\* ConstraintSet, leaves for every body b the external force
\* f_ext_constraints[b] = sum over the constraints i of body b of
\* constraint_force[i] * f_t[i], zero for a body without constraints.
C12_ExternalForcesAreSums ==
  [][(call'.fn = "ForwardDynamicsContacts" /\ call'.result = "ok")
     => \A b \in 0 .. mBodiesSize(model) - 1 :
          CS'.f_ext_constraints[b] = ConstraintForceOn(CS', b, 0)]_vars

\* a solve of the compliance engine has left a finite nonzero force, summed
\* from two constraints, in f_ext_constraints of one body, from which the
\* next solve on this ConstraintSet starts
C12_ForcesLeftBySolve ==
  /\ call.fn = "ForwardDynamicsContacts" /\ call.result = "ok"
  /\ size(CS) = 2 /\ CS.body[0] = CS.body[1]
  /\ \A i \in 0 .. 1 : ~IsNaN(CS.constraint_force[i]) /\ CS.constraint_force[i] # R(0)
  /\ CS.f_ext_constraints[CS.body[0]] # Zero3
  /\ \A k \in 0 .. 2 : ~IsNaN(CS.f_ext_constraints[CS.body[0]][k])

\* one step of a call: op, and the constraint it is made for (-1 outside
\* the loops over the constraints)
Step(op, i) == [op |-> op, ci |-> i]

\* the steps of the baseline loop for m constraints
BaselineSteps(m) ==
  [k \in 1 .. 2 * m |->
     IF k % 2 = 1 THEN Step("UpdateKinematicsCustom", (k - 1) \div 2)
     ELSE Step("CalcPointAcceleration", (k - 1) \div 2)]

\* the steps of the test force of constraint ci, ending with the m entries
\* of row ci of K
TestForceSteps(m, ci) ==
  << Step("CalcBodyToBaseCoordinates", ci),
     Step("ForwardDynamicsAccelerationDeltas", ci),
     Step("UpdateKinematicsCustom", ci) >>
  \o [cj \in 1 .. m |-> Step("CalcPointAcceleration", cj - 1)]

\* the steps of the test forces ci, ci+1, .., m-1
RECURSIVE TestForcesSteps(_, _)
TestForcesSteps(m, ci) ==
  IF ci >= m THEN << >> ELSE TestForceSteps(m, ci) \o TestForcesSteps(m, ci + 1)

\* C13 (order and counts of the steps): a ForwardDynamicsContacts call with
\* m constraints that has returned has made exactly these steps in this
\* order: one ForwardDynamics; the baseline acceleration and residual of
\* the constraints 0..m-1; for ci = 0..m-1 one
\* ForwardDynamicsAccelerationDeltas followed by the m entries of row ci of
\* K; one linear solve; one ForwardDynamicsApplyConstraintForces as the last
\* step; and no second ForwardDynamics.
C13_StepOrder ==
  (call.fn = "ForwardDynamicsContacts" /\ call.result = "ok")
  => call.log = << Step("ForwardDynamics", -1) >>
                \o BaselineSteps(size(CS))
                \o TestForcesSteps(size(CS), 0)
                \o << Step("solve", -1),
                      Step("ForwardDynamicsApplyConstraintForces", -1) >>

\* ForwardDynamicsContacts has returned for two constraints on different
\* bodies whose test forces act on each other
C13_TwoTestForces ==
  /\ call.fn = "ForwardDynamicsContacts" /\ call.result = "ok"
  /\ size(CS) = 2 /\ CS.body[0] # CS.body[1]
  /\ CS.K.at[<<0, 1>>] # R(0) /\ CS.K.at[<<1, 0>>] # R(0)
  /\ \A p \in DOMAIN CS.K.at : ~IsNaN(CS.K.at[p])

\* C14 (only the force's body and its ancestors hold deltas): when
\* ForwardDynamicsAccelerationDeltas has returned for a force on body b,
\* every body i that is neither b nor an ancestor of b has d_pA[i] = 0 and
\* d_u[i] = 0.
C14_DeltasOnlyOnPath ==
  (call.fn = "ForwardDynamicsAccelerationDeltas" /\ call.result = "ok")
  => \A i \in 0 .. mBodiesSize(model) - 1 :
       ~OnPath(model, i, call.log[1].ci)
       => CS.d_pA[i] = Zero3 /\ CS.d_u[i] = R(0)

\* ForwardDynamicsAccelerationDeltas has returned for a force on the last
\* body of a tree, whose loop went over a body beside the path, on a
\* workspace that held the deltas of a solve
C14_VisitedBesidePath ==
  /\ call.fn = "ForwardDynamicsAccelerationDeltas" /\ call.result = "ok"
  /\ call.log[1].ci = mBodiesSize(model) - 1
  /\ \E i \in 1 .. call.log[1].ci - 1 : ~OnPath(model, i, call.log[1].ci)
  /\ CS.d_pA[call.log[1].ci] # Zero3

\* the indices that the call used on the vector named v
Accessed(v) == {call.log[k].ci : k \in {j \in 1 .. Len(call.log) : call.log[j].op = v}}

\* C15 (the legacy path stays inside its workspace): in every call of
\* ForwardDynamicsContactsOld on m contacts every index used on f_t and on
\* point_accel_0 is below m and every index used on f_ext_constraints is
\* below mBodies.size(), the accesses made for the log included.
C15_WorkspaceInBounds ==
  call.fn = "ForwardDynamicsContactsOld"
  => /\ \A k \in Accessed("f_t") : k < VecSize(call.ContactData)
     /\ \A k \in Accessed("point_accel_0") : k < VecSize(call.ContactData)
     /\ \A k \in Accessed("f_ext_constraints") : k < mBodiesSize(model)

\* the legacy path has returned finite nonzero forces for two contacts
C15_LegacySolved ==
  /\ call.fn = "ForwardDynamicsContactsOld" /\ call.result = "ok"
  /\ VecSize(call.ContactData) = 2
  /\ \A ci \in 0 .. 1 :
       ~IsNaN(call.ContactData[ci].force) /\ call.ContactData[ci].force # R(0)

====
